---- MODULE Spec2Model ----
(***************************************************************************)
(* Mixed Neumann-Dirichlet Laplace problem with segment-restricted         *)
(* function spaces (notebooks/mixed_neumann_dirichlet.ipynb).              *)
(*                                                                         *)
(* The model follows the notebook cell by cell: the grid with its domain   *)
(* indices, the seven function spaces, the ten boundary operators and the  *)
(* blocked operator, the data grid functions and right-hand sides, the     *)
(* discretisation and gmres solve, the split of the solution vector and    *)
(* the recombination into global grid functions.  Spaces are modelled by   *)
(* their sets of degrees of freedom (dofs) on a small closed triangulated  *)
(* surface; matrices and vectors by their shapes and by which dof each     *)
(* entry belongs to.  Numerical values of integrals are not modelled.      *)
(***************************************************************************)
EXTENDS Integers, FiniteSets, Sequences, TLC

VARIABLES
    domain_index,   \* grid: element -> domain index of the element
    pc,             \* position in the notebook
    spaces,         \* name -> function space (cell 3)
    blocked,        \* <<row 0, row 1>> of operator expressions (cell 4)
    grid_funs,      \* name -> data grid function / right-hand side (cell 5)
    lhs,            \* blocked.weak_form() (cell 6)
    rhs,            \* stacked projections (cell 6)
    x,              \* gmres iterate (cell 6)
    info,           \* gmres status (cell 6)
    solutions,      \* name -> solved grid function (cell 7)
    recombined,     \* name -> global grid function (cell 8)
    space_closed,   \* function_space(..., closed=True, ...) of the flag study
    space_open      \* function_space(..., closed=False, ...) of the flag study

vars == <<domain_index, pc, spaces, blocked, grid_funs, lhs, rhs, x, info,
          solutions, recombined, space_closed, space_open>>

----------------------------------------------------------------------------
(* Bounds of the model *)

\* number of vertices on the equator of the bipyramid used as closed surface
RingSize == 3
\* largest polynomial order tried in the flag study
MaxOrder == 2
\* iteration budget of the Krylov solver (info = MaxIterations when it is used up)
MaxIterations == 2

----------------------------------------------------------------------------
(* Program constants *)

order_neumann == 1
order_dirichlet == 2
dirichlet_segments == {1, 3}
neumann_segments == {2, 4, 5, 6}

\* One domain index of each kind stands for the cube's six: a space depends on
\* an element's index only through its membership in `domains`.
SampleDomainIndices == {1, 2}
AllDomains == dirichlet_segments \cup neumann_segments

----------------------------------------------------------------------------
(* The grid: a closed triangulated surface (bipyramid over a ring).        *)
(* Ring vertices 1..RingSize, apexes Top and Bottom; element e <= RingSize *)
(* is the upper triangle over ring edge (e, Succ(e)), element RingSize + e *)
(* the lower one.  Every edge is shared by exactly two elements.           *)

Top == RingSize + 1
Bottom == RingSize + 2
Vertices == 1..(RingSize + 2)
Elements == 1..(2 * RingSize)
Succ(i) == IF i = RingSize THEN 1 ELSE i + 1

ElementVertices(e) ==
    IF e <= RingSize THEN {e, Succ(e), Top}
    ELSE {e - RingSize, Succ(e - RingSize), Bottom}

\* mesh entities are sets of vertices: {v} a vertex, {v, w} an edge,
\* {u, v, w} the interior of an element
ElementEntities(e) == (SUBSET ElementVertices(e)) \ {{}}
Entities == UNION {ElementEntities(e) : e \in Elements}
Edges == {ent \in Entities : Cardinality(ent) = 2}
AdjacentElements(ent) == {e \in Elements : ent \subseteq ElementVertices(e)}

Grids == [Elements -> SampleDomainIndices]

----------------------------------------------------------------------------
(* Segment model *)

elements_in(grid, domains) == {e \in Elements : grid[e] \in domains}

\* an edge shared between an element inside the set and one outside it
IsBoundaryEdge(grid, domains, ed) ==
    /\ \E e \in AdjacentElements(ed) : grid[e] \in domains
    /\ \E e \in AdjacentElements(ed) : grid[e] \notin domains

boundary_edges(grid, domains) ==
    {ed \in Edges : IsBoundaryEdge(grid, domains, ed)}

\* the reference point of a dof on entity ent lies on boundary_edges
OnBoundary(grid, domains, ent) ==
    \E ed \in Edges : ent \subseteq ed /\ IsBoundaryEdge(grid, domains, ed)

InClosure(grid, domains, ent) ==
    \E e \in AdjacentElements(ent) : grid[e] \in domains

\* the open segment keeps its boundary as well
InSegmentIgnoringClosed(grid, domains, closed, ent) ==
    InClosure(grid, domains, ent)

\* the flag read the wrong way round
InSegmentInverted(grid, domains, closed, ent) ==
    /\ InClosure(grid, domains, ent)
    /\ (~closed) \/ ~OnBoundary(grid, domains, ent)

\* closed: the boundary edges and the dofs on them are part of the segment;
\* open: the boundary edges are not part of it
InSegment(grid, domains, closed, ent) ==
    /\ InClosure(grid, domains, ent)
    /\ closed \/ ~OnBoundary(grid, domains, ent)

----------------------------------------------------------------------------
(* Dofs.  A dof is [elem, ent, k]: the k-th dof whose reference point lies *)
(* on entity ent; elem is the supporting element of a discontinuous dof    *)
(* and 0 for a continuous dof, which is shared by the elements around ent. *)

NumOnEntity(order, ent) ==
    IF order = 0 THEN (IF Cardinality(ent) = 3 THEN 1 ELSE 0)
    ELSE CASE Cardinality(ent) = 1 -> 1
           [] Cardinality(ent) = 2 -> order - 1
           [] OTHER -> ((order - 1) * (order - 2)) \div 2

DofsOn(elem, order, ent) ==
    {[elem |-> elem, ent |-> ent, k |-> k] : k \in 1..NumOnEntity(order, ent)}

\* discontinuous: every element carries its own dofs; continuous: the dofs
\* on a vertex or edge are shared by the elements around it
CandidateDofs(kind, order) ==
    IF kind = "DP"
    THEN UNION {UNION {DofsOn(e, order, ent) : ent \in ElementEntities(e)} :
                   e \in Elements}
    ELSE UNION {DofsOn(0, order, ent) : ent \in Entities}

\* elements on which the basis function of dof d is non-zero before truncation
DofElements(d) == IF d.elem = 0 THEN AdjacentElements(d.ent) ELSE {d.elem}

----------------------------------------------------------------------------
(* Space builder: bempp.api.function_space(grid, kind, order, domains,     *)
(* closed, element_on_segment, reference_point_on_segment,                 *)
(* strictly_on_segment)                                                    *)

\* defaults of the keyword arguments the notebook leaves out
DefaultClosed == TRUE
DefaultElementOnSegment == FALSE
DefaultReferencePointOnSegment == TRUE
DefaultStrictlyOnSegment == FALSE

\* the flag polarity reversed: reference_point_on_segment=True lets the
\* dofs on the excluded boundary in
AcceptDofReversed(grid, kind, domains, closed, eos, rpos, d) ==
    IF kind = "DP"
    THEN /\ (~rpos) => InSegment(grid, domains, closed, d.ent)
         /\ eos => d.elem \in elements_in(grid, domains)
    ELSE InSegment(grid, domains, closed, d.ent)

\* Discontinuous spaces: reference_point_on_segment=True keeps only dofs
\* whose reference point lies in the segment (closed: boundary included,
\* open: boundary excluded); element_on_segment=True keeps only dofs whose
\* element lies in the segment.  Continuous spaces: the dofs of the segment.
AcceptDof(grid, kind, domains, closed, eos, rpos, d) ==
    IF kind = "DP"
    THEN /\ rpos => InSegment(grid, domains, closed, d.ent)
         /\ eos => d.elem \in elements_in(grid, domains)
    ELSE InSegment(grid, domains, closed, d.ent)

function_space(grid, kind, order, domains, closed, eos, rpos, strict) ==
    [kind |-> kind, order |-> order, domains |-> domains, closed |-> closed,
     element_on_segment |-> eos, reference_point_on_segment |-> rpos,
     strictly_on_segment |-> strict,
     dofs |-> {d \in CandidateDofs(kind, order) :
                 AcceptDof(grid, kind, domains, closed, eos, rpos, d)}]

\* elements on which the basis function of dof d of the space is non-zero:
\* a continuous basis function extends into the elements adjacent to the
\* segment unless strictly_on_segment truncates it
Support(grid, space, d) ==
    IF space.kind = "P" /\ space.strictly_on_segment
    THEN DofElements(d) \cap elements_in(grid, space.domains)
    ELSE DofElements(d)

global_dof_count(space) == Cardinality(space.dofs)

NoSpace == [kind |-> "none", order |-> 0, domains |-> {}, closed |-> FALSE,
            element_on_segment |-> FALSE, reference_point_on_segment |-> FALSE,
            strictly_on_segment |-> FALSE, dofs |-> {}]

\* a space without dofs is rejected when it is built
DegenerateSpace(space) == space.dofs = {}

\* position of dof d in the space's numbering (dofs ordered by element,
\* entity and index on the entity)
RECURSIVE EntityCode(_)
EntityCode(ent) ==
    IF ent = {} THEN 0
    ELSE LET v == CHOOSE w \in ent : \A u \in ent : w >= u
         IN  2 ^ (v - 1) + EntityCode(ent \ {v})

DofCode(d) ==
    (d.elem * (2 ^ (RingSize + 2)) + EntityCode(d.ent)) * (MaxOrder + 2) * (MaxOrder + 2)
    + d.k

LocalIndex(space, d) ==
    Cardinality({d2 \in space.dofs : DofCode(d2) < DofCode(d)}) + 1

----------------------------------------------------------------------------
(* Cell 3: the seven spaces *)

global_neumann_space(grid) ==
    function_space(grid, "DP", order_neumann, AllDomains, DefaultClosed,
                   DefaultElementOnSegment, DefaultReferencePointOnSegment,
                   DefaultStrictlyOnSegment)

global_dirichlet_space(grid) ==
    function_space(grid, "P", order_dirichlet, AllDomains, DefaultClosed,
                   DefaultElementOnSegment, DefaultReferencePointOnSegment,
                   DefaultStrictlyOnSegment)

neumann_space_dirichlet_segment(grid) ==
    function_space(grid, "DP", order_neumann, dirichlet_segments, TRUE,
                   TRUE, DefaultReferencePointOnSegment, DefaultStrictlyOnSegment)

\* reference_point_on_segment left at its default
neumann_space_neumann_segment_DefaultFlags(grid) ==
    function_space(grid, "DP", order_neumann, neumann_segments, FALSE,
                   TRUE, DefaultReferencePointOnSegment, DefaultStrictlyOnSegment)

neumann_space_neumann_segment(grid) ==
    function_space(grid, "DP", order_neumann, neumann_segments, FALSE,
                   TRUE, FALSE, DefaultStrictlyOnSegment)

dirichlet_space_dirichlet_segment(grid) ==
    function_space(grid, "P", order_dirichlet, dirichlet_segments, TRUE,
                   DefaultElementOnSegment, DefaultReferencePointOnSegment,
                   DefaultStrictlyOnSegment)

dirichlet_space_neumann_segment(grid) ==
    function_space(grid, "P", order_dirichlet, neumann_segments, FALSE,
                   DefaultElementOnSegment, DefaultReferencePointOnSegment,
                   DefaultStrictlyOnSegment)

dual_dirichlet_space(grid) ==
    function_space(grid, "P", order_dirichlet, dirichlet_segments, TRUE,
                   DefaultElementOnSegment, DefaultReferencePointOnSegment, TRUE)

SpaceNames == {"global_neumann_space", "global_dirichlet_space",
               "neumann_space_dirichlet_segment", "neumann_space_neumann_segment",
               "dirichlet_space_dirichlet_segment", "dirichlet_space_neumann_segment",
               "dual_dirichlet_space"}

NoSpaces == [n \in SpaceNames |-> NoSpace]

BuiltSpaces(grid) ==
    [global_neumann_space |-> global_neumann_space(grid),
     global_dirichlet_space |-> global_dirichlet_space(grid),
     neumann_space_dirichlet_segment |-> neumann_space_dirichlet_segment(grid),
     neumann_space_neumann_segment |-> neumann_space_neumann_segment(grid),
     dirichlet_space_dirichlet_segment |-> dirichlet_space_dirichlet_segment(grid),
     dirichlet_space_neumann_segment |-> dirichlet_space_neumann_segment(grid),
     dual_dirichlet_space |-> dual_dirichlet_space(grid)]

----------------------------------------------------------------------------
(* Cell 4: boundary operators.  An operator expression is a set of terms   *)
(* [c2, kernel, domain, range, dual_to_range]; c2 is twice the scalar      *)
(* coefficient of the term, so that .5 * op has c2 = 1 and -op has c2 = -2.*)

BoundaryOperator(kernel, domain, range, dual_to_range) ==
    {[c2 |-> 2, kernel |-> kernel, domain |-> domain, range |-> range,
      dual_to_range |-> dual_to_range]}

Neg(A) == {[t EXCEPT !.c2 = -t.c2] : t \in A}
Half(A) == {[t EXCEPT !.c2 = t.c2 \div 2] : t \in A}
Add(A, B) == A \cup B
Sub(A, B) == A \cup Neg(B)

slp_DD == BoundaryOperator("single_layer", "neumann_space_dirichlet_segment",
              "dirichlet_space_dirichlet_segment", "neumann_space_dirichlet_segment")

\* the test space passed as dual_to_range as well
dlp_DN_RangeAsDual ==
    BoundaryOperator("double_layer", "dirichlet_space_neumann_segment",
        "dirichlet_space_dirichlet_segment", "dirichlet_space_dirichlet_segment")

dlp_DN == BoundaryOperator("double_layer", "dirichlet_space_neumann_segment",
              "dirichlet_space_dirichlet_segment", "neumann_space_dirichlet_segment")

adlp_ND == BoundaryOperator("adjoint_double_layer", "neumann_space_dirichlet_segment",
              "neumann_space_neumann_segment", "dirichlet_space_neumann_segment")

hyp_NN == BoundaryOperator("hypersingular", "dirichlet_space_neumann_segment",
              "neumann_space_neumann_segment", "dirichlet_space_neumann_segment")

slp_DN == BoundaryOperator("single_layer", "neumann_space_neumann_segment",
              "dirichlet_space_dirichlet_segment", "neumann_space_dirichlet_segment")

dlp_DD == BoundaryOperator("double_layer", "dirichlet_space_dirichlet_segment",
              "dirichlet_space_dirichlet_segment", "neumann_space_dirichlet_segment")

id_DD == BoundaryOperator("identity", "dirichlet_space_dirichlet_segment",
              "dirichlet_space_dirichlet_segment", "neumann_space_dirichlet_segment")

adlp_NN == BoundaryOperator("adjoint_double_layer", "neumann_space_neumann_segment",
              "neumann_space_neumann_segment", "dirichlet_space_neumann_segment")

id_NN == BoundaryOperator("identity", "neumann_space_neumann_segment",
              "neumann_space_neumann_segment", "dirichlet_space_neumann_segment")

hyp_ND == BoundaryOperator("hypersingular", "dirichlet_space_dirichlet_segment",
              "neumann_space_neumann_segment", "dirichlet_space_neumann_segment")

BlockIndices == {0, 1} \X {0, 1}

BlockedOperator == [rc \in BlockIndices |-> {}]

AssembledBlocked ==
    [rc \in BlockIndices |->
        CASE rc = <<0, 0>> -> slp_DD
          [] rc = <<0, 1>> -> Neg(dlp_DN)
          [] rc = <<1, 0>> -> adlp_ND
          [] OTHER -> hyp_NN]

----------------------------------------------------------------------------
(* Cell 5: data grid functions and right-hand sides *)

\* coefficient vector of a function in a space: entry i belongs to dof i
Coefficients(name, n) == [i \in 1..n |-> <<name, i>>]

GridFunction(name, space, data, dual_space, coefficients) ==
    [name |-> name, space |-> space, data |-> data, dual_space |-> dual_space,
     coefficients |-> coefficients]

dirichlet_grid_fun(sp) ==
    GridFunction("dirichlet_grid_fun", "dirichlet_space_dirichlet_segment",
                 "dirichlet_data", "dual_dirichlet_space",
                 Coefficients("dirichlet_grid_fun",
                     global_dof_count(sp["dirichlet_space_dirichlet_segment"])))

neumann_grid_fun(sp) ==
    GridFunction("neumann_grid_fun", "neumann_space_neumann_segment",
                 "neumann_data", "dirichlet_space_neumann_segment",
                 Coefficients("neumann_grid_fun",
                     global_dof_count(sp["neumann_space_neumann_segment"])))

\* operator expression applied to a grid function: a set of terms
\* [c2, kernel, domain, range, dual_to_range, fun]
Apply(A, fun) ==
    {[c2 |-> t.c2, kernel |-> t.kernel, domain |-> t.domain, range |-> t.range,
      dual_to_range |-> t.dual_to_range, fun |-> fun] : t \in A}

\* the single-layer term added instead of subtracted
rhs_fun1_PlusSlp ==
    Add(Apply(Add(Half(id_DD), dlp_DD), "dirichlet_grid_fun"),
        Apply(slp_DN, "neumann_grid_fun"))

rhs_fun1 ==
    Sub(Apply(Add(Half(id_DD), dlp_DD), "dirichlet_grid_fun"),
        Apply(slp_DN, "neumann_grid_fun"))

rhs_fun2 ==
    Add(Neg(Apply(hyp_ND, "dirichlet_grid_fun")),
        Apply(Sub(Half(id_NN), adlp_NN), "neumann_grid_fun"))

NoGridFuns ==
    [dirichlet_grid_fun |-> GridFunction("none", "none", "none", "none", <<>>),
     neumann_grid_fun |-> GridFunction("none", "none", "none", "none", <<>>),
     rhs_fun1 |-> {}, rhs_fun2 |-> {}]

----------------------------------------------------------------------------
(* Cell 6: discretisation and solve *)

\* rows follow the range instead of dual_to_range
WeakFormShapeByRange(sp, A) ==
    LET t == CHOOSE u \in A : TRUE
    IN  <<global_dof_count(sp[t.range]), global_dof_count(sp[t.domain])>>

\* shape of the discretised operator: one row per dof of dual_to_range, one
\* column per dof of domain
WeakFormShape(sp, A) ==
    LET t == CHOOSE u \in A : TRUE
    IN  <<global_dof_count(sp[t.dual_to_range]), global_dof_count(sp[t.domain])>>

weak_form(sp, blk) ==
    LET shapes == [rc \in BlockIndices |-> WeakFormShape(sp, blk[rc])]
    IN  [blocks |-> shapes,
         shape |-> <<shapes[<<0, 0>>][1] + shapes[<<1, 0>>][1],
                     shapes[<<0, 0>>][2] + shapes[<<0, 1>>][2]>>]

\* fun.projections(dual_space): one entry per dof of dual_space
projections(sp, fun, dual_space) ==
    [i \in 1..global_dof_count(sp[dual_space]) |-> <<fun, dual_space, i>>]

hstack(a, b) == a \o b

\* the right-hand sides projected onto the range spaces of the operators
StackedRhsOntoRange(sp) ==
    hstack(projections(sp, "rhs_fun1", "dirichlet_space_dirichlet_segment"),
           projections(sp, "rhs_fun2", "neumann_space_neumann_segment"))

StackedRhs(sp) ==
    hstack(projections(sp, "rhs_fun1", "neumann_space_dirichlet_segment"),
           projections(sp, "rhs_fun2", "dirichlet_space_neumann_segment"))

NoLhs == [blocks |-> [rc \in BlockIndices |-> <<0, 0>>], shape |-> <<0, 0>>]

\* gmres accepts a square matrix and a right-hand side with as many entries as rows
Conformable(A, b) == A.shape[1] = A.shape[2] /\ A.shape[1] = Len(b)

\* the iterate: one entry per column of the matrix
Iterate(A) == [i \in 1..A.shape[2] |-> i]

----------------------------------------------------------------------------
(* Cell 7: split of the solution vector *)

Min(a, b) == IF a < b THEN a ELSE b

\* python slice v[a:b] (0-based, end exclusive, clamped to the vector)
Slice(v, a, b) ==
    LET lo == Min(a, Len(v))
        hi == Min(b, Len(v))
    IN  IF hi <= lo THEN <<>> ELSE [i \in 1..(hi - lo) |-> v[lo + i]]

\* the split point taken from the other unknown's space
nx0_OtherSpace(sp) == global_dof_count(sp["dirichlet_space_neumann_segment"])

nx0(sp) == global_dof_count(sp["neumann_space_dirichlet_segment"])

neumann_solution(sp, v) ==
    GridFunction("neumann_solution", "neumann_space_dirichlet_segment", "coefficients",
                 "neumann_space_dirichlet_segment", Slice(v, 0, nx0(sp)))

dirichlet_solution(sp, v) ==
    GridFunction("dirichlet_solution", "dirichlet_space_neumann_segment", "coefficients",
                 "dirichlet_space_neumann_segment", Slice(v, nx0(sp), Len(v)))

NoSolutions ==
    [neumann_solution |-> GridFunction("none", "none", "none", "none", <<>>),
     dirichlet_solution |-> GridFunction("none", "none", "none", "none", <<>>)]

----------------------------------------------------------------------------
(* Cell 8: imbedding into the global spaces and recombination *)

neumann_imbedding_dirichlet_segment ==
    BoundaryOperator("identity", "neumann_space_dirichlet_segment",
                     "global_neumann_space", "global_neumann_space")

neumann_imbedding_neumann_segment ==
    BoundaryOperator("identity", "neumann_space_neumann_segment",
                     "global_neumann_space", "global_neumann_space")

dirichlet_imbedding_dirichlet_segment ==
    BoundaryOperator("identity", "dirichlet_space_dirichlet_segment",
                     "global_dirichlet_space", "global_dirichlet_space")

dirichlet_imbedding_neumann_segment ==
    BoundaryOperator("identity", "dirichlet_space_neumann_segment",
                     "global_dirichlet_space", "global_dirichlet_space")

\* identity operator times grid function: the function in the range space.
\* The coefficient of a dof of the range is the coefficient of the same dof in
\* the domain space, and zero (no contribution) when the domain space lacks it.
Imbed(sp, A, fun) ==
    LET t == CHOOSE u \in A : TRUE
        from == sp[t.domain]
        to == sp[t.range]
    IN  [space |-> t.range,
         coefficients |->
            [i \in 1..global_dof_count(to) |->
                LET d == CHOOSE g \in to.dofs : LocalIndex(to, g) = i
                IN  IF d \in from.dofs /\ LocalIndex(from, d) <= Len(fun.coefficients)
                    THEN {<<fun.name, LocalIndex(from, d)>>}
                    ELSE {}]]

\* sum of two grid functions of one space: coefficientwise
Plus(f, g) ==
    [space |-> f.space,
     coefficients |-> [i \in 1..Len(f.coefficients) |->
                          f.coefficients[i] \cup g.coefficients[i]]]

dirichlet(sp, gf, sol) ==
    Plus(Imbed(sp, dirichlet_imbedding_dirichlet_segment, gf.dirichlet_grid_fun),
         Imbed(sp, dirichlet_imbedding_neumann_segment, sol.dirichlet_solution))

neumann(sp, gf, sol) ==
    Plus(Imbed(sp, neumann_imbedding_neumann_segment, gf.neumann_grid_fun),
         Imbed(sp, neumann_imbedding_dirichlet_segment, sol.neumann_solution))

NoRecombined ==
    [dirichlet |-> [space |-> "none", coefficients |-> <<>>],
     neumann |-> [space |-> "none", coefficients |-> <<>>]]

----------------------------------------------------------------------------
(* The notebook as a state machine: one action per code cell *)

Init ==
    /\ domain_index \in Grids
    /\ pc = "grid"
    /\ spaces = NoSpaces
    /\ blocked = BlockedOperator
    /\ grid_funs = NoGridFuns
    /\ lhs = NoLhs
    /\ rhs = <<>>
    /\ x = <<>>
    /\ info = 0
    /\ solutions = NoSolutions
    /\ recombined = NoRecombined
    /\ space_closed = NoSpace
    /\ space_open = NoSpace

DefineSpaces ==
    /\ pc = "grid"
    /\ LET built == BuiltSpaces(domain_index)
       IN  IF \E n \in SpaceNames : DegenerateSpace(built[n])
           THEN pc' = "error" /\ UNCHANGED spaces
           ELSE pc' = "spaces" /\ spaces' = built
    /\ UNCHANGED <<domain_index, blocked, grid_funs, lhs, rhs, x, info,
                   solutions, recombined, space_closed, space_open>>

DefineOperators ==
    /\ pc = "spaces"
    /\ blocked' = AssembledBlocked
    /\ pc' = "operators"
    /\ UNCHANGED <<domain_index, spaces, grid_funs, lhs, rhs, x, info,
                   solutions, recombined, space_closed, space_open>>

DefineData ==
    /\ pc = "operators"
    /\ grid_funs' = [dirichlet_grid_fun |-> dirichlet_grid_fun(spaces),
                     neumann_grid_fun |-> neumann_grid_fun(spaces),
                     rhs_fun1 |-> rhs_fun1, rhs_fun2 |-> rhs_fun2]
    /\ pc' = "data"
    /\ UNCHANGED <<domain_index, spaces, blocked, lhs, rhs, x, info,
                   solutions, recombined, space_closed, space_open>>

\* gmres returns the iterate and a status: 0 when converged, the number of
\* iterations when the budget is used up; it raises only on ill-shaped input
\* a solver that raises when the iteration budget is used up
GmresRaisingOnNonConvergence(A, b, status) ==
    IF Conformable(A, b) /\ status = 0
    THEN [pc |-> "solved", x |-> Iterate(A), info |-> status]
    ELSE [pc |-> "error", x |-> <<>>, info |-> status]

GmresResult(A, b, status) ==
    IF Conformable(A, b)
    THEN [pc |-> "solved", x |-> Iterate(A), info |-> status]
    ELSE [pc |-> "error", x |-> <<>>, info |-> 0]

Solve ==
    /\ pc = "data"
    /\ \E status \in {0, MaxIterations} :
         LET A == weak_form(spaces, blocked)
             b == StackedRhs(spaces)
             r == GmresResult(A, b, status)
         IN  /\ lhs' = A
             /\ rhs' = b
             /\ pc' = r.pc
             /\ x' = r.x
             /\ info' = r.info
    /\ UNCHANGED <<domain_index, spaces, blocked, grid_funs,
                   solutions, recombined, space_closed, space_open>>

SplitSolution ==
    /\ pc = "solved"
    /\ solutions' = [neumann_solution |-> neumann_solution(spaces, x),
                     dirichlet_solution |-> dirichlet_solution(spaces, x)]
    /\ pc' = "split"
    /\ UNCHANGED <<domain_index, spaces, blocked, grid_funs, lhs, rhs, x, info,
                   recombined, space_closed, space_open>>

Recombine ==
    /\ pc = "split"
    /\ recombined' = [dirichlet |-> dirichlet(spaces, grid_funs, solutions),
                      neumann |-> neumann(spaces, grid_funs, solutions)]
    /\ pc' = "recombined"
    /\ UNCHANGED <<domain_index, spaces, blocked, grid_funs, lhs, rhs, x, info,
                   solutions, space_closed, space_open>>

Next ==
    \/ DefineSpaces
    \/ DefineOperators
    \/ DefineData
    \/ Solve
    \/ SplitSolution
    \/ Recombine

Spec == Init /\ [][Next]_vars

----------------------------------------------------------------------------
(* Flag study: function_space called with every combination of arguments,  *)
(* once with closed=True and once with the same arguments and closed=False *)

Kinds == {"DP", "P"}
Orders(kind) == IF kind = "DP" THEN 0..MaxOrder ELSE 1..MaxOrder
DomainChoices == {dirichlet_segments, neumann_segments, AllDomains}

InitFlags ==
    /\ domain_index \in Grids
    /\ pc = "flags"
    /\ spaces = NoSpaces
    /\ blocked = BlockedOperator
    /\ grid_funs = NoGridFuns
    /\ lhs = NoLhs
    /\ rhs = <<>>
    /\ x = <<>>
    /\ info = 0
    /\ solutions = NoSolutions
    /\ recombined = NoRecombined
    /\ space_closed = NoSpace
    /\ space_open = NoSpace

BuildClosed ==
    /\ pc = "flags"
    /\ space_closed = NoSpace
    /\ \E kind \in Kinds, domains \in DomainChoices, eos, rpos, strict \in BOOLEAN :
         \E order \in Orders(kind) :
            LET sp == function_space(domain_index, kind, order, domains, TRUE,
                                     eos, rpos, strict)
            IN  /\ ~DegenerateSpace(sp)
                /\ space_closed' = sp
    /\ space_open' = NoSpace
    /\ UNCHANGED <<domain_index, pc, spaces, blocked, grid_funs, lhs, rhs, x, info,
                   solutions, recombined>>

BuildOpen ==
    /\ pc = "flags"
    /\ space_closed # NoSpace
    /\ space_open = NoSpace
    /\ LET sp == function_space(domain_index, space_closed.kind, space_closed.order,
                                space_closed.domains, FALSE,
                                space_closed.element_on_segment,
                                space_closed.reference_point_on_segment,
                                space_closed.strictly_on_segment)
       IN  /\ ~DegenerateSpace(sp)
           /\ space_open' = sp
    /\ UNCHANGED <<domain_index, pc, spaces, blocked, grid_funs, lhs, rhs, x, info,
                   solutions, recombined, space_closed>>

NextFlags == BuildClosed \/ BuildOpen

SpecFlags == InitFlags /\ [][NextFlags]_vars

----------------------------------------------------------------------------
(* Properties *)

SpacesBuilt == pc \in {"spaces", "operators", "data", "solved", "split", "recombined"}
              \/ (pc = "error" /\ lhs # NoLhs)

\* C1: once the spaces are built, the dofs of dirichlet_space_dirichlet_segment
\* (closed) and of dirichlet_space_neumann_segment (open) together are exactly
\* the dofs of global_dirichlet_space, no dof is in both, and the two dof
\* counts add up to the global dof count.
C1_DirichletDofsPartition ==
    SpacesBuilt =>
        LET D == spaces["dirichlet_space_dirichlet_segment"]
            N == spaces["dirichlet_space_neumann_segment"]
            G == spaces["global_dirichlet_space"]
        IN  /\ D.dofs \cup N.dofs = G.dofs
            /\ D.dofs \cap N.dofs = {}
            /\ global_dof_count(D) + global_dof_count(N) = global_dof_count(G)

\* the spaces are built and a dof on the interface went to the closed side
C1_Witness ==
    /\ pc = "spaces"
    /\ \E d \in spaces["dirichlet_space_dirichlet_segment"].dofs :
          OnBoundary(domain_index, dirichlet_segments, d.ent)
    /\ spaces["dirichlet_space_neumann_segment"].dofs # {}

BoundaryCandidates(space) ==
    {d \in CandidateDofs(space.kind, space.order) :
        OnBoundary(domain_index, space.domains, d.ent)}

\* C2 as amended: in a space built with closed=False, a dof whose reference
\* point lies on boundary_edges(domain) is excluded when
\* reference_point_on_segment is true (and always in a continuous space);
\* when reference_point_on_segment is false, such a dof of a discontinuous
\* space is included provided its element lies inside the domain.
C2_ReferencePointFlag ==
    space_open # NoSpace =>
        \A d \in BoundaryCandidates(space_open) :
            /\ (space_open.reference_point_on_segment \/ space_open.kind = "P")
                  => d \notin space_open.dofs
            /\ (~space_open.reference_point_on_segment /\ space_open.kind = "DP"
                /\ Support(domain_index, space_open, d)
                      \subseteq elements_in(domain_index, space_open.domains))
                  => d \in space_open.dofs

\* an open discontinuous space built with reference_point_on_segment=False
\* that holds a dof on the excluded boundary
C2_Witness ==
    /\ space_open # NoSpace
    /\ space_open.kind = "DP"
    /\ ~space_open.reference_point_on_segment
    /\ \E d \in BoundaryCandidates(space_open) : d \in space_open.dofs

\* C2 as stated: excluded unless reference_point_on_segment is true; when it
\* is true, included provided the basis support lies on elements inside the
\* domain.
C2_AsStated ==
    space_open # NoSpace =>
        \A d \in BoundaryCandidates(space_open) :
            /\ (~space_open.reference_point_on_segment) => d \notin space_open.dofs
            /\ (space_open.reference_point_on_segment
                /\ Support(domain_index, space_open, d)
                      \subseteq elements_in(domain_index, space_open.domains))
                  => d \in space_open.dofs

\* C3 as amended: the space built with closed=False never has more dofs than
\* the one built with the same arguments and closed=True (its dofs are among
\* the closed space's); it has strictly fewer exactly when the closed space
\* holds a dof on the boundary that the reference-point test applies to.
C3_ClosedNeverFewer ==
    space_open # NoSpace =>
        /\ space_open.dofs \subseteq space_closed.dofs
        /\ global_dof_count(space_open) <= global_dof_count(space_closed)
        /\ (global_dof_count(space_open) < global_dof_count(space_closed))
              <=> \E d \in space_closed.dofs :
                     /\ OnBoundary(domain_index, space_closed.domains, d.ent)
                     /\ space_closed.kind = "P" \/ space_closed.reference_point_on_segment

\* both spaces are built and opening the segment removed dofs
C3_Witness ==
    /\ space_open # NoSpace
    /\ global_dof_count(space_open) < global_dof_count(space_closed)

\* C3 as stated: closed=False gives strictly fewer dofs than closed=True.
C3_AsStated ==
    space_open # NoSpace =>
        global_dof_count(space_open) < global_dof_count(space_closed)

OperatorsDefined == SpacesBuilt /\ pc # "spaces"

\* C4: in the blocked operator all entries of a block-row have the same range
\* and dual_to_range spaces and the same row count, all entries of a
\* block-column the same domain space and the same column count, and the
\* negated entry has the spaces of dlp_DN.
C4_BlockSpacesAgree ==
    OperatorsDefined =>
        /\ \A r, c1, c2 \in {0, 1} :
              \A t1 \in blocked[<<r, c1>>], t2 \in blocked[<<r, c2>>] :
                 /\ t1.range = t2.range
                 /\ t1.dual_to_range = t2.dual_to_range
        /\ \A r, c1, c2 \in {0, 1} :
              WeakFormShape(spaces, blocked[<<r, c1>>])[1]
                 = WeakFormShape(spaces, blocked[<<r, c2>>])[1]
        /\ \A c, r1, r2 \in {0, 1} :
              \A t1 \in blocked[<<r1, c>>], t2 \in blocked[<<r2, c>>] :
                 t1.domain = t2.domain
        /\ \A c, r1, r2 \in {0, 1} :
              WeakFormShape(spaces, blocked[<<r1, c>>])[2]
                 = WeakFormShape(spaces, blocked[<<r2, c>>])[2]
        /\ \A rc \in BlockIndices : blocked[rc] # {}
        /\ \A t \in blocked[<<0, 1>>] : \A u \in dlp_DN :
              /\ t.domain = u.domain /\ t.range = u.range
              /\ t.dual_to_range = u.dual_to_range /\ t.c2 = -u.c2

\* the blocked operator is assembled on a grid where the two trial spaces
\* differ in size
C4_Witness ==
    /\ pc = "operators"
    /\ WeakFormShape(spaces, blocked[<<0, 0>>])[2]
          # WeakFormShape(spaces, blocked[<<0, 1>>])[2]

DataDefined == OperatorsDefined /\ pc # "operators"

SegmentOf(name) ==
    IF spaces[name].domains = dirichlet_segments THEN "D"
    ELSE IF spaces[name].domains = neumann_segments THEN "N"
    ELSE "global"

\* a term as the block system writes it: coefficient, kernel and the
\* (test-segment, trial-segment) subscript, with the kind of the trial space
LhsView(t) ==
    [c2 |-> t.c2, kernel |-> t.kernel, test |-> SegmentOf(t.dual_to_range),
     trial |-> SegmentOf(t.domain), unknown |-> spaces[t.domain].kind]

RhsView(t) ==
    [c2 |-> t.c2, kernel |-> t.kernel, test |-> SegmentOf(t.dual_to_range),
     trial |-> SegmentOf(t.domain), data |-> grid_funs[t.fun].data]

\* [ V_DD  -K_DN ] [t]   [ (0.5*I + K)_DD g_D - V_DN g_N  ]
\* [ K'_ND  W_NN ] [u] = [ (0.5*I - K')_NN g_N - W_ND g_D ]
ExpectedLhs ==
    [rc \in BlockIndices |->
        CASE rc = <<0, 0>> -> {[c2 |-> 2, kernel |-> "single_layer",
                                test |-> "D", trial |-> "D", unknown |-> "DP"]}
          [] rc = <<0, 1>> -> {[c2 |-> -2, kernel |-> "double_layer",
                                test |-> "D", trial |-> "N", unknown |-> "P"]}
          [] rc = <<1, 0>> -> {[c2 |-> 2, kernel |-> "adjoint_double_layer",
                                test |-> "N", trial |-> "D", unknown |-> "DP"]}
          [] OTHER -> {[c2 |-> 2, kernel |-> "hypersingular",
                        test |-> "N", trial |-> "N", unknown |-> "P"]}]

ExpectedRhs1 ==
    {[c2 |-> 1, kernel |-> "identity", test |-> "D", trial |-> "D",
      data |-> "dirichlet_data"],
     [c2 |-> 2, kernel |-> "double_layer", test |-> "D", trial |-> "D",
      data |-> "dirichlet_data"],
     [c2 |-> -2, kernel |-> "single_layer", test |-> "D", trial |-> "N",
      data |-> "neumann_data"]}

ExpectedRhs2 ==
    {[c2 |-> 1, kernel |-> "identity", test |-> "N", trial |-> "N",
      data |-> "neumann_data"],
     [c2 |-> -2, kernel |-> "adjoint_double_layer", test |-> "N", trial |-> "N",
      data |-> "neumann_data"],
     [c2 |-> -2, kernel |-> "hypersingular", test |-> "N", trial |-> "D",
      data |-> "dirichlet_data"]}

\* C5: the assembled system is the block system above: same kernels, signs
\* and coefficients, every operator built on spaces of the segments its
\* subscript names (range and dual_to_range on the test segment, domain on
\* the trial segment), and the data functions live on the trial segment of
\* the operators applied to them.
C5_BlockSystemAsSpecified ==
    DataDefined =>
        /\ \A rc \in BlockIndices : {LhsView(t) : t \in blocked[rc]} = ExpectedLhs[rc]
        /\ {RhsView(t) : t \in grid_funs.rhs_fun1} = ExpectedRhs1
        /\ {RhsView(t) : t \in grid_funs.rhs_fun2} = ExpectedRhs2
        /\ Cardinality(grid_funs.rhs_fun1) = 3
        /\ Cardinality(grid_funs.rhs_fun2) = 3
        /\ \A rc \in BlockIndices : \A t \in blocked[rc] :
              SegmentOf(t.range) = SegmentOf(t.dual_to_range)
        /\ \A t \in grid_funs.rhs_fun1 \cup grid_funs.rhs_fun2 :
              SegmentOf(t.range) = SegmentOf(t.dual_to_range)
        /\ \A t \in grid_funs.rhs_fun1 \cup grid_funs.rhs_fun2 :
              /\ grid_funs[t.fun].space = t.domain
              /\ SegmentOf(grid_funs[t.fun].space) = SegmentOf(t.domain)

\* the data cell has run
C5_Witness ==
    /\ pc = "data"
    /\ grid_funs.rhs_fun1 # {}
    /\ grid_funs.dirichlet_grid_fun.coefficients # <<>>

Discretised == lhs # NoLhs

\* C6 as amended: the discretised matrix of an operator has
\* dual_to_range.dof_count rows (the third space) and domain.dof_count
\* columns; two operators that differ only in the range (test) space have
\* the same shape.
C6_ShapeByDualAndDomain ==
    Discretised =>
        /\ \A rc \in BlockIndices : \A t \in blocked[rc] :
              lhs.blocks[rc] = <<global_dof_count(spaces[t.dual_to_range]),
                                 global_dof_count(spaces[t.domain])>>
        /\ \A dom, dual, r1, r2 \in SpaceNames :
              WeakFormShape(spaces, BoundaryOperator("single_layer", dom, r1, dual))
                 = WeakFormShape(spaces, BoundaryOperator("single_layer", dom, r2, dual))

\* a discretised system in which range and dual_to_range of a block differ
\* in dof count
C6_Witness ==
    /\ pc = "solved"
    /\ \E t \in blocked[<<0, 0>>] :
          global_dof_count(spaces[t.range]) # global_dof_count(spaces[t.dual_to_range])

\* C6 as stated: test_space.dof_count rows (the second space), and the same
\* shape for operators that differ only in dual_space.
C6_AsStated ==
    Discretised =>
        /\ \A rc \in BlockIndices : \A t \in blocked[rc] :
              lhs.blocks[rc] = <<global_dof_count(spaces[t.range]),
                                 global_dof_count(spaces[t.domain])>>
        /\ \A dom, rng, d1, d2 \in SpaceNames :
              WeakFormShape(spaces, BoundaryOperator("single_layer", dom, rng, d1))
                 = WeakFormShape(spaces, BoundaryOperator("single_layer", dom, rng, d2))

\* C7: after recombination each global grid function lives in its global
\* space with one coefficient per dof of that space, and every global dof
\* has a contribution from exactly one of the two imbedded segment functions.
C7_RecombinedCoversOnce ==
    pc = "recombined" =>
        /\ recombined.dirichlet.space = "global_dirichlet_space"
        /\ recombined.neumann.space = "global_neumann_space"
        /\ Len(recombined.dirichlet.coefficients)
              = global_dof_count(spaces["global_dirichlet_space"])
        /\ Len(recombined.neumann.coefficients)
              = global_dof_count(spaces["global_neumann_space"])
        /\ \A i \in 1..Len(recombined.dirichlet.coefficients) :
              Cardinality(recombined.dirichlet.coefficients[i]) = 1
        /\ \A i \in 1..Len(recombined.neumann.coefficients) :
              Cardinality(recombined.neumann.coefficients[i]) = 1

\* recombined, with known and solved data both contributing to each field
C7_Witness ==
    /\ pc = "recombined"
    /\ \E i, j \in 1..Len(recombined.dirichlet.coefficients) :
          /\ \E c \in recombined.dirichlet.coefficients[i] : c[1] = "dirichlet_grid_fun"
          /\ \E c \in recombined.dirichlet.coefficients[j] : c[1] = "dirichlet_solution"
    /\ \E i, j \in 1..Len(recombined.neumann.coefficients) :
          /\ \E c \in recombined.neumann.coefficients[i] : c[1] = "neumann_grid_fun"
          /\ \E c \in recombined.neumann.coefficients[j] : c[1] = "neumann_solution"

\* C8: when the solve ends with a non-zero status there is still an iterate
\* with one entry per column, the notebook is not in an error state, and the
\* split and recombination steps that follow work on that iterate.
C8_NonConvergenceKeepsIterate ==
    (Discretised /\ info # 0) =>
        /\ pc \in {"solved", "split", "recombined"}
        /\ Len(x) = lhs.shape[2]
        /\ pc \in {"split", "recombined"} =>
              solutions.neumann_solution.coefficients
                 \o solutions.dirichlet_solution.coefficients = x
        /\ pc = "recombined" => recombined # NoRecombined

\* recombination reached with the iterate of a solve that did not converge
C8_Witness ==
    /\ pc = "recombined"
    /\ info = MaxIterations
    /\ x # <<>>

\* C9: the two pieces of the split have the dof counts of their spaces and,
\* one after the other, are the solution vector.
C9_SplitMatchesSpaces ==
    pc \in {"split", "recombined"} =>
        /\ solutions.neumann_solution.space = "neumann_space_dirichlet_segment"
        /\ solutions.dirichlet_solution.space = "dirichlet_space_neumann_segment"
        /\ Len(solutions.neumann_solution.coefficients)
              = global_dof_count(spaces["neumann_space_dirichlet_segment"])
        /\ Len(solutions.dirichlet_solution.coefficients)
              = global_dof_count(spaces["dirichlet_space_neumann_segment"])
        /\ solutions.neumann_solution.coefficients
              \o solutions.dirichlet_solution.coefficients = x

\* the split has run on a solution whose two pieces differ in length
C9_Witness ==
    /\ pc = "split"
    /\ Len(solutions.neumann_solution.coefficients)
          # Len(solutions.dirichlet_solution.coefficients)
    /\ Len(solutions.dirichlet_solution.coefficients) > 0

\* C10: the matrix handed to the solver is square, has as many rows as rhs
\* has entries, block-row r has as many rows as the r-th piece of rhs, and
\* the column count is the sum of the dof counts of the two trial spaces.
C10_SystemConformable ==
    Discretised =>
        /\ lhs.shape[1] = Len(rhs)
        /\ lhs.shape[1] = lhs.shape[2]
        /\ \A i \in 1..Len(rhs) :
              rhs[i][1] = (IF i <= lhs.blocks[<<0, 0>>][1] THEN "rhs_fun1" ELSE "rhs_fun2")
        /\ lhs.blocks[<<0, 0>>][1] = lhs.blocks[<<0, 1>>][1]
        /\ lhs.blocks[<<1, 0>>][1] = lhs.blocks[<<1, 1>>][1]
        /\ lhs.shape[2] = global_dof_count(spaces["neumann_space_dirichlet_segment"])
                          + global_dof_count(spaces["dirichlet_space_neumann_segment"])
        /\ pc # "error"

\* the system is discretised and solved
C10_Witness ==
    /\ pc = "solved"
    /\ Len(rhs) > 0
    /\ lhs.shape[1] = Len(rhs)

====
